---- MODULE Spec2Model ----
(***************************************************************************)
(* Water-Quality-Analyzer: the image-to-metrics pipeline of                *)
(* src/app/api/analyze/route.ts (POST, analyzeImage, the eight calculate*  *)
(* formulas, determineWaterQuality, assessWaterSafety and                  *)
(* generateRecommendations).                                               *)
(*                                                                         *)
(* JavaScript numbers are modelled as extended rationals <<n, d>> in       *)
(* lowest terms with d >= 0:  d > 0 is the finite number n/d, <<1,0>> is   *)
(* +Infinity, <<-1,0>> is -Infinity and <<0,0>> is NaN.  The operators     *)
(* below follow the IEEE-754 rules for NaN and the infinities; rounding of *)
(* finite results is not modelled (arithmetic on finite values is exact),  *)
(* except Math.sqrt, which is exact on perfect squares and otherwise       *)
(* rounded down to a multiple of 1/SqrtScale.                              *)
(***************************************************************************)
EXTENDS Integers, Naturals, Sequences, FiniteSets, TLC

\* ------------------------------------------------------------------------
\* Bounds of the model
\* ------------------------------------------------------------------------
MaxPixels == 2
SqrtScale == 10

\* ------------------------------------------------------------------------
\* JavaScript number arithmetic
\* ------------------------------------------------------------------------
Abs(x) == IF x < 0 THEN -x ELSE x

RECURSIVE Gcd(_, _)
Gcd(a, b) == IF b = 0 THEN a ELSE Gcd(b, a % b)

NaN == <<0, 0>>
PosInf == <<1, 0>>
NegInf == <<-1, 0>>

Sign(x) == IF x > 0 THEN 1 ELSE IF x < 0 THEN -1 ELSE 0

\* the number n/d in lowest terms; a zero denominator yields NaN or +-Infinity
Norm(n, d) ==
  IF d = 0 THEN <<Sign(n), 0>>
  ELSE LET g == Gcd(Abs(n), Abs(d))
           s == IF d < 0 THEN -1 ELSE 1
       IN  <<s * (n \div g), s * (d \div g)>>

Num(k) == <<k, 1>>
Frac(n, d) == Norm(n, d)

IsNaN(a) == a[1] = 0 /\ a[2] = 0
IsFinite(a) == a[2] > 0

\* a + b
RAdd(a, b) ==
  IF IsNaN(a) \/ IsNaN(b) THEN NaN
  ELSE IF a[2] = 0 /\ b[2] = 0 THEN (IF a[1] = b[1] THEN a ELSE NaN)
  ELSE IF a[2] = 0 THEN a
  ELSE IF b[2] = 0 THEN b
  ELSE LET g == Gcd(a[2], b[2])
       IN  Norm(a[1] * (b[2] \div g) + b[1] * (a[2] \div g), (a[2] \div g) * b[2])

RNeg(a) == <<-a[1], a[2]>>

\* a - b
RSub(a, b) == RAdd(a, RNeg(b))

\* a * b
RMul(a, b) ==
  IF IsNaN(a) \/ IsNaN(b) THEN NaN
  ELSE IF a[2] = 0 \/ b[2] = 0 THEN <<Sign(a[1]) * Sign(b[1]), 0>>
  ELSE LET g1 == Gcd(Abs(a[1]), b[2])
           g2 == Gcd(Abs(b[1]), a[2])
       IN  Norm((a[1] \div g1) * (b[1] \div g2), (a[2] \div g2) * (b[2] \div g1))

\* a / b  (x/0 is +-Infinity, 0/0 is NaN; the sign of a zero is not modelled)
RDiv(a, b) ==
  IF IsNaN(a) \/ IsNaN(b) THEN NaN
  ELSE IF a[2] = 0 /\ b[2] = 0 THEN NaN
  ELSE IF a[2] = 0 THEN <<a[1] * (IF b[1] < 0 THEN -1 ELSE 1), 0>>
  ELSE IF b[2] = 0 THEN Num(0)
  ELSE IF b[1] = 0 THEN <<Sign(a[1]), 0>>
  ELSE RMul(a, Norm(b[2], b[1]))

\* n1/d1 <= n2/d2 for d1, d2 > 0, by comparing the integer parts and then
\* the reciprocals of the fractional parts (no cross product is formed)
RECURSIVE FracLe(_, _, _, _)
FracLe(n1, d1, n2, d2) ==
  LET q1 == n1 \div d1
      q2 == n2 \div d2
      r1 == n1 % d1
      r2 == n2 % d2
  IN  IF q1 # q2 THEN q1 < q2
      ELSE IF r1 = 0 THEN TRUE
      ELSE IF r2 = 0 THEN FALSE
      ELSE FracLe(d2, r2, d1, r1)

\* a <= b, a < b, a >= b, a > b : every comparison with NaN is false
RLe(a, b) ==
  IF IsNaN(a) \/ IsNaN(b) THEN FALSE
  ELSE IF a[2] = 0 /\ b[2] = 0 THEN a[1] <= b[1]
  ELSE IF a[2] = 0 THEN a[1] < 0
  ELSE IF b[2] = 0 THEN b[1] > 0
  ELSE FracLe(a[1], a[2], b[1], b[2])

RLt(a, b) == RLe(a, b) /\ a # b
RGe(a, b) == RLe(b, a)
RGt(a, b) == RLt(b, a)

\* Math.max, Math.min of two numbers: NaN if either argument is NaN
MathMax(a, b) == IF IsNaN(a) \/ IsNaN(b) THEN NaN ELSE IF RLe(b, a) THEN a ELSE b
MathMin(a, b) == IF IsNaN(a) \/ IsNaN(b) THEN NaN ELSE IF RLe(a, b) THEN a ELSE b

\* Math.abs
MathAbs(a) == <<Abs(a[1]), a[2]>>

\* largest k in lo..hi with k*k <= n
RECURSIVE ISqrtSearch(_, _, _)
ISqrtSearch(n, lo, hi) ==
  IF lo >= hi THEN lo
  ELSE LET mid == (lo + hi + 1) \div 2
       IN  IF mid * mid <= n THEN ISqrtSearch(n, mid, hi)
           ELSE ISqrtSearch(n, lo, mid - 1)

\* floor(sqrt(n)) for 0 <= n; the search stops at SqrtLimit
SqrtLimit == 256 * SqrtScale
ISqrt(n) == ISqrtSearch(n, 0, SqrtLimit)

\* floor(n * k / d) for n >= 0, d > 0, k > 0
MulDivFloor(n, k, d) == (n \div d) * k + ((n % d) * k) \div d

\* Math.sqrt
MathSqrt(a) ==
  IF IsNaN(a) THEN NaN
  ELSE IF a[1] < 0 THEN NaN
  ELSE IF a[2] = 0 THEN PosInf
  ELSE LET rn == ISqrt(a[1])
           rd == ISqrt(a[2])
       IN  IF rn * rn = a[1] /\ rd * rd = a[2] THEN Norm(rn, rd)
           ELSE Norm(ISqrt(MulDivFloor(a[1], SqrtScale * SqrtScale, a[2])), SqrtScale)

\* Math.pow(a, 2)
MathPow2(a) == RMul(a, a)

\* ------------------------------------------------------------------------
\* analyzeImage: the two passes over the raw pixel buffer
\* ------------------------------------------------------------------------
\* pixelData[i] of a Buffer (0-based): a sample, or undefined past the end,
\* which every arithmetic use below coerces to NaN
ReadSample(pixelData, i) ==
  IF i + 1 <= Len(pixelData) THEN Num(pixelData[i + 1]) ELSE NaN

ZeroTotals ==
  [red |-> Num(0), green |-> Num(0), blue |-> Num(0),
   brightness |-> Num(0), saturation |-> Num(0), variance |-> Num(0)]

\* one iteration of the first loop, at index i
Pass1Body(colorTotals, pixelData, i) ==
  LET red == ReadSample(pixelData, i)
      green == ReadSample(pixelData, i + 1)
      blue == ReadSample(pixelData, i + 2)
      max == MathMax(MathMax(red, green), blue)
      min == MathMin(MathMin(red, green), blue)
  IN  [colorTotals EXCEPT
         !.red = RAdd(@, red),
         !.green = RAdd(@, green),
         !.blue = RAdd(@, blue),
         !.brightness = RAdd(@, RDiv(RAdd(RAdd(red, green), blue), Num(3))),
         !.saturation = RAdd(@, IF RGt(max, Num(0))
                                  THEN RDiv(RSub(max, min), max) ELSE Num(0))]

\* the averages object built between the loops
MakeAverages(colorTotals, totalPixels) ==
  [red |-> RDiv(colorTotals.red, Num(totalPixels)),
   green |-> RDiv(colorTotals.green, Num(totalPixels)),
   blue |-> RDiv(colorTotals.blue, Num(totalPixels)),
   brightness |-> RDiv(colorTotals.brightness, Num(totalPixels)),
   saturation |-> RDiv(colorTotals.saturation, Num(totalPixels)),
   variance |-> Num(0)]

\* one iteration of the second loop, at index i
Pass2Body(colorTotals, averages, pixelData, i) ==
  LET red == ReadSample(pixelData, i)
      green == ReadSample(pixelData, i + 1)
      blue == ReadSample(pixelData, i + 2)
  IN  [colorTotals EXCEPT
         !.variance = RAdd(@, RAdd(RAdd(MathPow2(RSub(red, averages.red)),
                                        MathPow2(RSub(green, averages.green))),
                                   MathPow2(RSub(blue, averages.blue))))]

\* averages.variance = Math.sqrt(colorTotals.variance / (totalPixels * 3))
SetVariance(colorTotals, averages, totalPixels) ==
  [averages EXCEPT
     !.variance = MathSqrt(RDiv(colorTotals.variance, Num(totalPixels * 3)))]

\* ------------------------------------------------------------------------
\* Metric derivation
\* ------------------------------------------------------------------------
\* Math.max(lo, Math.min(hi, x))
Clamp(lo, hi, x) == MathMax(lo, MathMin(hi, x))

calculatePH(averages) ==
  LET rgRatio == RDiv(averages.red, averages.green)
      bModifier == RDiv(averages.blue, Num(255))
      baseValue == RAdd(Num(7), RMul(RSub(rgRatio, Num(1)), Frac(7, 2)))
  IN  Clamp(Num(0), Num(14), RAdd(baseValue, RSub(bModifier, Frac(1, 2))))

calculateTurbidity(averages) ==
  LET brightnessComponent == RDiv(RSub(Num(255), averages.brightness), Frac(51, 8))
      varianceComponent == RDiv(averages.variance, Num(30))
  IN  Clamp(Num(0), Num(40), RAdd(brightnessComponent, varianceComponent))

calculateDissolvedOxygen(averages) ==
  Clamp(Num(0), Num(15),
        RAdd(RMul(RDiv(averages.blue, Num(255)), Num(10)),
             RMul(averages.saturation, Num(5))))

calculateTemperature(averages) ==
  Clamp(Num(0), Num(40), RMul(RDiv(averages.red, Num(255)), Num(40)))

calculateConductivity(averages) ==
  Clamp(Num(0), Num(2000),
        RAdd(RMul(averages.variance, Num(5)),
             RMul(RDiv(averages.brightness, Num(255)), Num(1000))))

calculateTDS(averages) ==
  Clamp(Num(0), Num(1000),
        RAdd(RMul(RDiv(averages.brightness, Num(255)), Num(500)),
             RMul(averages.variance, Num(2))))

calculateChlorine(averages) ==
  Clamp(Num(0), Num(4),
        RMul(RDiv(RSub(averages.green, averages.blue), Num(255)), Num(4)))

\* calculateHardness from the red average alone
calculateHardnessRedOnly(averages) ==
  Clamp(Num(0), Num(300),
        RMul(RDiv(averages.red, Num(2 * 255)), Num(300)))

calculateHardness(averages) ==
  Clamp(Num(0), Num(300),
        RMul(RDiv(RAdd(averages.red, averages.green), Num(2 * 255)), Num(300)))

\* the object analyzeImage returns
DeriveMetrics(averages) ==
  [ph |-> calculatePH(averages),
   turbidity |-> calculateTurbidity(averages),
   dissolvedOxygen |-> calculateDissolvedOxygen(averages),
   temperature |-> calculateTemperature(averages),
   conductivity |-> calculateConductivity(averages),
   totalDissolvedSolids |-> calculateTDS(averages),
   chlorine |-> calculateChlorine(averages),
   hardness |-> calculateHardness(averages)]

\* ------------------------------------------------------------------------
\* Quality classifier
\* ------------------------------------------------------------------------
scoreInRange(value, min, max) ==
  IF RGe(value, min) /\ RLe(value, max) THEN Num(1)
  ELSE LET midpoint == RDiv(RAdd(min, max), Num(2))
           deviation == RDiv(MathAbs(RSub(value, midpoint)), RSub(max, min))
       IN  MathMax(Num(0), RSub(Num(1), deviation))

\* determineWaterQuality with the thresholds made exclusive
determineWaterQualityExclusive(m) ==
  LET scores == <<scoreInRange(m.ph, Frac(13, 2), Frac(17, 2)),
                  scoreInRange(m.turbidity, Num(0), Num(5)),
                  scoreInRange(m.dissolvedOxygen, Num(6), Num(8)),
                  scoreInRange(m.totalDissolvedSolids, Num(0), Num(500)),
                  scoreInRange(m.chlorine, Frac(1, 5), Num(2)),
                  scoreInRange(m.hardness, Num(60), Num(180))>>
      sum == RAdd(RAdd(RAdd(RAdd(RAdd(scores[1], scores[2]), scores[3]),
                            scores[4]), scores[5]), scores[6])
      averageScore == RDiv(sum, Num(Len(scores)))
  IN  IF RGt(averageScore, Frac(9, 10)) THEN "Excellent"
      ELSE IF RGt(averageScore, Frac(7, 10)) THEN "Good"
      ELSE IF RGt(averageScore, Frac(5, 10)) THEN "Fair"
      ELSE "Poor"

\* determineWaterQuality with a seventh score, of the temperature
determineWaterQualityWithTemperature(m) ==
  LET scores == <<scoreInRange(m.ph, Frac(13, 2), Frac(17, 2)),
                  scoreInRange(m.turbidity, Num(0), Num(5)),
                  scoreInRange(m.dissolvedOxygen, Num(6), Num(8)),
                  scoreInRange(m.totalDissolvedSolids, Num(0), Num(500)),
                  scoreInRange(m.chlorine, Frac(1, 5), Num(2)),
                  scoreInRange(m.hardness, Num(60), Num(180)),
                  scoreInRange(m.temperature, Num(10), Num(30))>>
      sum == RAdd(RAdd(RAdd(RAdd(RAdd(RAdd(scores[1], scores[2]), scores[3]),
                                 scores[4]), scores[5]), scores[6]), scores[7])
      averageScore == RDiv(sum, Num(Len(scores)))
  IN  IF RGe(averageScore, Frac(9, 10)) THEN "Excellent"
      ELSE IF RGe(averageScore, Frac(7, 10)) THEN "Good"
      ELSE IF RGe(averageScore, Frac(5, 10)) THEN "Fair"
      ELSE "Poor"

determineWaterQuality(m) ==
  LET scores == <<scoreInRange(m.ph, Frac(13, 2), Frac(17, 2)),
                  scoreInRange(m.turbidity, Num(0), Num(5)),
                  scoreInRange(m.dissolvedOxygen, Num(6), Num(8)),
                  scoreInRange(m.totalDissolvedSolids, Num(0), Num(500)),
                  scoreInRange(m.chlorine, Frac(1, 5), Num(2)),
                  scoreInRange(m.hardness, Num(60), Num(180))>>
      sum == RAdd(RAdd(RAdd(RAdd(RAdd(scores[1], scores[2]), scores[3]),
                            scores[4]), scores[5]), scores[6])
      averageScore == RDiv(sum, Num(Len(scores)))
  IN  IF RGe(averageScore, Frac(9, 10)) THEN "Excellent"
      ELSE IF RGe(averageScore, Frac(7, 10)) THEN "Good"
      ELSE IF RGe(averageScore, Frac(5, 10)) THEN "Fair"
      ELSE "Poor"

\* ------------------------------------------------------------------------
\* Safety assessor
\* ------------------------------------------------------------------------
\* assessWaterSafety with the turbidity bound of isDrinkable made exclusive
assessWaterSafetyStrictTurbidity(m) ==
  [isDrinkable |->
     /\ RGe(m.ph, Frac(13, 2)) /\ RLe(m.ph, Frac(17, 2))
     /\ RLt(m.turbidity, Num(1))
     /\ RGe(m.dissolvedOxygen, Num(6))
     /\ RLe(m.totalDissolvedSolids, Num(500))
     /\ RGe(m.chlorine, Frac(1, 5)) /\ RLe(m.chlorine, Num(4)),
   isSwimmable |->
     /\ RGe(m.ph, Num(6)) /\ RLe(m.ph, Num(9))
     /\ RLe(m.turbidity, Num(5))
     /\ RGe(m.dissolvedOxygen, Num(4)),
   isIrrigationSafe |->
     /\ RGe(m.ph, Num(6)) /\ RLe(m.ph, Frac(17, 2))
     /\ RLe(m.totalDissolvedSolids, Num(2000))]

\* assessWaterSafety with a turbidity bound of isSwimmable below that of
\* isDrinkable
assessWaterSafetyClearToSwim(m) ==
  [isDrinkable |->
     /\ RGe(m.ph, Frac(13, 2)) /\ RLe(m.ph, Frac(17, 2))
     /\ RLe(m.turbidity, Num(1))
     /\ RGe(m.dissolvedOxygen, Num(6))
     /\ RLe(m.totalDissolvedSolids, Num(500))
     /\ RGe(m.chlorine, Frac(1, 5)) /\ RLe(m.chlorine, Num(4)),
   isSwimmable |->
     /\ RGe(m.ph, Num(6)) /\ RLe(m.ph, Num(9))
     /\ RLe(m.turbidity, Frac(1, 2))
     /\ RGe(m.dissolvedOxygen, Num(4)),
   isIrrigationSafe |->
     /\ RGe(m.ph, Num(6)) /\ RLe(m.ph, Frac(17, 2))
     /\ RLe(m.totalDissolvedSolids, Num(2000))]

\* assessWaterSafety without the dissolved-solids bound of isDrinkable
assessWaterSafetyNoSolidsBound(m) ==
  [isDrinkable |->
     /\ RGe(m.ph, Frac(13, 2)) /\ RLe(m.ph, Frac(17, 2))
     /\ RLe(m.turbidity, Num(1))
     /\ RGe(m.dissolvedOxygen, Num(6))
     /\ RGe(m.chlorine, Frac(1, 5)) /\ RLe(m.chlorine, Num(4)),
   isSwimmable |->
     /\ RGe(m.ph, Num(6)) /\ RLe(m.ph, Num(9))
     /\ RLe(m.turbidity, Num(5))
     /\ RGe(m.dissolvedOxygen, Num(4)),
   isIrrigationSafe |->
     /\ RGe(m.ph, Num(6)) /\ RLe(m.ph, Frac(17, 2))
     /\ RLe(m.totalDissolvedSolids, Num(2000))]

assessWaterSafety(m) ==
  [isDrinkable |->
     /\ RGe(m.ph, Frac(13, 2)) /\ RLe(m.ph, Frac(17, 2))
     /\ RLe(m.turbidity, Num(1))
     /\ RGe(m.dissolvedOxygen, Num(6))
     /\ RLe(m.totalDissolvedSolids, Num(500))
     /\ RGe(m.chlorine, Frac(1, 5)) /\ RLe(m.chlorine, Num(4)),
   isSwimmable |->
     /\ RGe(m.ph, Num(6)) /\ RLe(m.ph, Num(9))
     /\ RLe(m.turbidity, Num(5))
     /\ RGe(m.dissolvedOxygen, Num(4)),
   isIrrigationSafe |->
     /\ RGe(m.ph, Num(6)) /\ RLe(m.ph, Frac(17, 2))
     /\ RLe(m.totalDissolvedSolids, Num(2000))]

\* ------------------------------------------------------------------------
\* Recommendation generator
\* ------------------------------------------------------------------------
\* Number.prototype.toFixed(1) of a finite number, as its count of tenths:
\* the nearest tenth, the larger one on a tie
ToFixed1(x) == (2 * 10 * x[1] + x[2]) \div (2 * x[2])

\* a message: which advisory it is and, for the pH advisory, the embedded
\* one-decimal rendering of the measured value
PhMessage(ph) == [text |-> "pH level is outside safe drinking range. Consider pH adjustment.",
                  tenths |-> ToFixed1(ph)]
TurbidityMessage == [text |-> "Water turbidity is high. Filtration recommended before consumption.",
                     tenths |-> 0]
ChlorineMessage == [text |-> "Chlorine levels are low. Consider additional disinfection.",
                    tenths |-> 0]
SoftenerMessage == [text |-> "Water is very hard. Consider using a water softener.",
                    tenths |-> 0]
ReverseOsmosisMessage == [text |-> "High TDS levels detected. Consider reverse osmosis treatment.",
                          tenths |-> 0]
AcceptableMessage == [text |-> "Water quality is within acceptable ranges. Regular monitoring recommended.",
                      tenths |-> 0]

\* generateRecommendations with the fallback decided before the hardness and
\* TDS checks
generateRecommendationsEarlyFallback(m, safety) ==
  LET r0 == <<>>
      r1 == IF ~safety.isDrinkable /\ (RLt(m.ph, Frac(13, 2)) \/ RGt(m.ph, Frac(17, 2)))
            THEN Append(r0, PhMessage(m.ph)) ELSE r0
      r2 == IF ~safety.isDrinkable /\ RGt(m.turbidity, Num(1))
            THEN Append(r1, TurbidityMessage) ELSE r1
      r3 == IF ~safety.isDrinkable /\ RLt(m.chlorine, Frac(1, 5))
            THEN Append(r2, ChlorineMessage) ELSE r2
      r3b == IF Len(r3) = 0 THEN Append(r3, AcceptableMessage) ELSE r3
      r4 == IF RGt(m.hardness, Num(180)) THEN Append(r3b, SoftenerMessage) ELSE r3b
      r5 == IF RGt(m.totalDissolvedSolids, Num(500))
            THEN Append(r4, ReverseOsmosisMessage) ELSE r4
  IN  r5

\* generateRecommendations with the TDS check before the hardness check
generateRecommendationsSwapped(m, safety) ==
  LET r0 == <<>>
      r1 == IF ~safety.isDrinkable /\ (RLt(m.ph, Frac(13, 2)) \/ RGt(m.ph, Frac(17, 2)))
            THEN Append(r0, PhMessage(m.ph)) ELSE r0
      r2 == IF ~safety.isDrinkable /\ RGt(m.turbidity, Num(1))
            THEN Append(r1, TurbidityMessage) ELSE r1
      r3 == IF ~safety.isDrinkable /\ RLt(m.chlorine, Frac(1, 5))
            THEN Append(r2, ChlorineMessage) ELSE r2
      r4 == IF RGt(m.totalDissolvedSolids, Num(500))
            THEN Append(r3, ReverseOsmosisMessage) ELSE r3
      r5 == IF RGt(m.hardness, Num(180)) THEN Append(r4, SoftenerMessage) ELSE r4
  IN  IF Len(r5) = 0 THEN Append(r5, AcceptableMessage) ELSE r5

\* generateRecommendations without the low-chlorine advisory
generateRecommendationsNoChlorine(m, safety) ==
  LET r0 == <<>>
      r1 == IF ~safety.isDrinkable /\ (RLt(m.ph, Frac(13, 2)) \/ RGt(m.ph, Frac(17, 2)))
            THEN Append(r0, PhMessage(m.ph)) ELSE r0
      r2 == IF ~safety.isDrinkable /\ RGt(m.turbidity, Num(1))
            THEN Append(r1, TurbidityMessage) ELSE r1
      r4 == IF RGt(m.hardness, Num(180)) THEN Append(r2, SoftenerMessage) ELSE r2
      r5 == IF RGt(m.totalDissolvedSolids, Num(500))
            THEN Append(r4, ReverseOsmosisMessage) ELSE r4
  IN  IF Len(r5) = 0 THEN Append(r5, AcceptableMessage) ELSE r5

generateRecommendations(m, safety) ==
  LET r0 == <<>>
      r1 == IF ~safety.isDrinkable /\ (RLt(m.ph, Frac(13, 2)) \/ RGt(m.ph, Frac(17, 2)))
            THEN Append(r0, PhMessage(m.ph)) ELSE r0
      r2 == IF ~safety.isDrinkable /\ RGt(m.turbidity, Num(1))
            THEN Append(r1, TurbidityMessage) ELSE r1
      r3 == IF ~safety.isDrinkable /\ RLt(m.chlorine, Frac(1, 5))
            THEN Append(r2, ChlorineMessage) ELSE r2
      r4 == IF RGt(m.hardness, Num(180)) THEN Append(r3, SoftenerMessage) ELSE r3
      r5 == IF RGt(m.totalDissolvedSolids, Num(500))
            THEN Append(r4, ReverseOsmosisMessage) ELSE r4
  IN  IF Len(r5) = 0 THEN Append(r5, AcceptableMessage) ELSE r5

\* ------------------------------------------------------------------------
\* State
\* ------------------------------------------------------------------------
VARIABLES
  request,          \* the upload being served (the input)
  pc,               \* where POST stands
  width, height,    \* metadata.width, metadata.height
  rawPixelData,     \* the buffer of image.raw().toBuffer()
  i,                \* loop index of the running pass
  colorTotals,      \* analyzeImage's accumulators
  averages,         \* analyzeImage's averages object
  metrics,          \* the WaterQualityMetrics
  overallQuality,   \* result of determineWaterQuality
  safetyStatus,     \* result of assessWaterSafety
  safetyArg,        \* the flags handed to generateRecommendations
  recommendations,  \* result of generateRecommendations
  response,         \* the NextResponse returned
  steps,            \* the steps run so far, in order
  thrown,           \* the message of the error the catch block caught and logged
  parked,           \* the other invocations of POST, each suspended at an await
                    \* (or not yet entered, or returned), with their locals
  mapPage,          \* the map page: its useState values and its pending timers
  uploadPage        \* the upload page: its useState values, its pending
                    \* FileReader loads and its pending fetch

vars == <<request, pc, width, height, rawPixelData, i, colorTotals, averages,
          metrics, overallQuality, safetyStatus, safetyArg, recommendations,
          response, steps, thrown, parked, mapPage, uploadPage>>

\* ------------------------------------------------------------------------
\* Inputs
\* ------------------------------------------------------------------------
\* the colours <<r, g, b>> a pixel of an uploaded image takes in the model
Palette ==
  {<<0, 0, 0>>, <<255, 255, 255>>, <<255, 0, 0>>, <<0, 255, 0>>, <<0, 0, 255>>,
   <<102, 102, 102>>, <<102, 153, 204>>, <<255, 255, 204>>}

\* channel counts of the decoded image: RGB without alpha, RGBA
ChannelCounts == {3, 4}

\* the alpha sample of a pixel of an RGBA image (opaque)
Opaque == 255

Shapes == {s \in (1..MaxPixels) \X (1..MaxPixels) : s[1] * s[2] <= MaxPixels}

\* the samples of one pixel in a raw buffer of c channels
PixelSamples(colour, c) == IF c = 4 THEN Append(colour, Opaque) ELSE colour

\* all raw buffers of n pixels with c channels
RECURSIVE RawBuffers(_, _)
RawBuffers(n, c) ==
  IF n = 0 THEN {<<>>}
  ELSE {q \o PixelSamples(colour, c) : q \in RawBuffers(n - 1, c), colour \in Palette}

NoImage == [width |-> 0, height |-> 0, channels |-> 0, pixels |-> <<>>]

\* a request whose body is not parseable form data
MalformedRequests == {[kind |-> "malformed", fmt |-> "none", image |-> NoImage]}

\* parseable form data whose "file" entry is missing (null) or a string
NoBlobRequests ==
  {[kind |-> k, fmt |-> "none", image |-> NoImage] : k \in {"absent", "string"}}

\* a Blob of zero bytes, and one whose bytes are no image
BadBlobRequests ==
  {[kind |-> "blob", fmt |-> f, image |-> NoImage] : f \in {"empty", "notimage"}}

\* an image whose header gives no usable width or height
NoDimsRequests ==
  {[kind |-> "blob", fmt |-> "image",
    image |-> [width |-> w, height |-> h, channels |-> 3, pixels |-> <<>>]] :
     <<w, h>> \in {<<0, 0>>, <<0, 1>>, <<1, 0>>}}

\* an image with a readable header whose pixel data cannot be decoded
CorruptRequests ==
  {[kind |-> "blob", fmt |-> "corrupt",
    image |-> [width |-> s[1], height |-> s[2], channels |-> 3, pixels |-> <<>>]] :
     s \in Shapes}

\* decodable images
ImageRequests ==
  UNION {UNION {
    {[kind |-> "blob", fmt |-> "image",
      image |-> [width |-> s[1], height |-> s[2], channels |-> c, pixels |-> px]] :
       px \in RawBuffers(s[1] * s[2], c)} : c \in ChannelCounts} : s \in Shapes}

Requests ==
  MalformedRequests \cup NoBlobRequests \cup BadBlobRequests \cup NoDimsRequests
    \cup CorruptRequests \cup ImageRequests

\* ------------------------------------------------------------------------
\* Values of what is not yet computed
\* ------------------------------------------------------------------------
NoMetrics ==
  [ph |-> NaN, turbidity |-> NaN, dissolvedOxygen |-> NaN, temperature |-> NaN,
   conductivity |-> NaN, totalDissolvedSolids |-> NaN, chlorine |-> NaN,
   hardness |-> NaN]
NoSafety == [isDrinkable |-> FALSE, isSwimmable |-> FALSE, isIrrigationSafe |-> FALSE]
NoResponse == [status |-> 0, body |-> [pending |-> TRUE]]

\* ------------------------------------------------------------------------
\* Responses
\* ------------------------------------------------------------------------
InvalidInputResponse == [status |-> 400, body |-> [error |-> "Invalid file input"]]
FailureResponse == [status |-> 500, body |-> [error |-> "Failed to analyze the image"]]
ResultResponse(result) == [status |-> 200, body |-> result]

\* ------------------------------------------------------------------------
\* The pages: a value that may be null is <<>> for null and <<v>> for v
\* ------------------------------------------------------------------------
Null == <<>>
Some(v) == <<v>>

\* the map page after its first render
InitialMapPage ==
  [selectedLocation |-> Null, loading |-> FALSE, result |-> Null, timers |-> <<>>]

\* the upload page after its first render
InitialUploadPage ==
  [selectedFile |-> Null, preview |-> Null, result |-> Null, loading |-> FALSE,
   error |-> Null, readers |-> <<>>, fetching |-> Null]

Init ==
  /\ request \in Requests
  /\ pc = "formData"
  /\ width = 0
  /\ height = 0
  /\ rawPixelData = <<>>
  /\ i = 0
  /\ colorTotals = ZeroTotals
  /\ averages = ZeroTotals
  /\ metrics = NoMetrics
  /\ overallQuality = ""
  /\ safetyStatus = NoSafety
  /\ safetyArg = NoSafety
  /\ recommendations = <<>>
  /\ response = NoResponse
  /\ steps = <<>>
  /\ thrown = ""
  /\ mapPage = InitialMapPage
  /\ uploadPage = InitialUploadPage
  /\ parked = <<>>

\* the message of the error thrown in the given stretch of POST for the
\* request being served
ThrownError(step) ==
  IF step = "formData" THEN "Failed to parse body as FormData"
  ELSE IF step = "sharp" THEN "Input Buffer is empty"
  ELSE IF step = "metadata" /\ request.fmt = "notimage"
       THEN "Input buffer contains unsupported image format"
  ELSE IF step = "metadata" THEN "Failed to read image dimensions"
  ELSE "Input buffer has corrupt header"

\* the catch block answering without the status option
CatchNoStatus(step) ==
  /\ thrown' = ThrownError(step)
  /\ response' = [status |-> 200, body |-> [error |-> "Failed to analyze the image"]]
  /\ pc' = "done"
  /\ steps' = Append(steps, step)

\* the catch block answering with the message of the caught error
CatchLeaksMessage(step) ==
  /\ thrown' = ThrownError(step)
  /\ response' = [status |-> 500, body |-> [error |-> ThrownError(step)]]
  /\ pc' = "done"
  /\ steps' = Append(steps, step)

\* the catch block: log, answer 500
Catch(step) ==
  /\ thrown' = ThrownError(step)
  /\ response' = FailureResponse
  /\ pc' = "done"
  /\ steps' = Append(steps, step)

\* ------------------------------------------------------------------------
\* POST, one action per stretch between two awaits
\* ------------------------------------------------------------------------
\* POST's first stretch with the check reduced to "if (!file)"
ParseFormNoBlobCheck ==
  /\ pc = "formData"
  /\ IF request.kind = "malformed"
     THEN Catch("formData")
     ELSE IF request.kind = "absent"
     THEN /\ response' = InvalidInputResponse
          /\ pc' = "done"
          /\ steps' = Append(steps, "formData")
          /\ UNCHANGED thrown
     ELSE /\ pc' = "arrayBuffer"
          /\ steps' = Append(steps, "formData")
          /\ UNCHANGED <<response, thrown>>
  /\ UNCHANGED <<mapPage, uploadPage, parked, request, width, height, rawPixelData, i, colorTotals, averages,
                 metrics, overallQuality, safetyStatus, safetyArg, recommendations>>

\* await request.formData(); formData.get("file"); the Blob check
ParseForm ==
  /\ pc = "formData"
  /\ IF request.kind = "malformed"
     THEN Catch("formData")
     ELSE IF request.kind # "blob"
     THEN /\ response' = InvalidInputResponse
          /\ pc' = "done"
          /\ steps' = Append(steps, "formData")
          /\ UNCHANGED thrown
     ELSE /\ pc' = "arrayBuffer"
          /\ steps' = Append(steps, "formData")
          /\ UNCHANGED <<response, thrown>>
  /\ UNCHANGED <<mapPage, uploadPage, parked, request, width, height, rawPixelData, i, colorTotals, averages,
                 metrics, overallQuality, safetyStatus, safetyArg, recommendations>>

\* await file.arrayBuffer(); Buffer.from; sharp(buffer), which rejects an
\* empty buffer
ReadBytes ==
  /\ pc = "arrayBuffer"
  /\ IF request.fmt = "empty"
     THEN Catch("sharp")
     ELSE /\ pc' = "metadata"
          /\ steps' = Append(steps, "sharp")
          /\ UNCHANGED <<response, thrown>>
  /\ UNCHANGED <<mapPage, uploadPage, parked, request, width, height, rawPixelData, i, colorTotals, averages,
                 metrics, overallQuality, safetyStatus, safetyArg, recommendations>>

\* await image.metadata(); the width/height check
ReadMetadata ==
  /\ pc = "metadata"
  /\ IF request.fmt = "notimage"
     THEN Catch("metadata") /\ UNCHANGED <<width, height>>
     ELSE /\ width' = request.image.width
          /\ height' = request.image.height
          /\ IF request.image.width = 0 \/ request.image.height = 0
             THEN Catch("metadata")
             ELSE /\ pc' = "toBuffer"
                  /\ steps' = Append(steps, "metadata")
                  /\ UNCHANGED <<response, thrown>>
  /\ UNCHANGED <<mapPage, uploadPage, parked, request, rawPixelData, i, colorTotals, averages,
                 metrics, overallQuality, safetyStatus, safetyArg, recommendations>>

\* await image.raw().toBuffer(): the samples of the image with the channels
\* the image has; then analyzeImage is entered
DecodeRaw ==
  /\ pc = "toBuffer"
  /\ IF request.fmt = "corrupt"
     THEN Catch("toBuffer") /\ UNCHANGED <<rawPixelData, i, colorTotals>>
     ELSE /\ rawPixelData' = request.image.pixels
          /\ colorTotals' = ZeroTotals
          /\ i' = 0
          /\ pc' = "pass1"
          /\ steps' = Append(steps, "toBuffer")
          /\ UNCHANGED <<response, thrown>>
  /\ UNCHANGED <<mapPage, uploadPage, parked, request, width, height, averages,
                 metrics, overallQuality, safetyStatus, safetyArg, recommendations>>

\* ------------------------------------------------------------------------
\* analyzeImage, run to its end without suspension
\* ------------------------------------------------------------------------
Pass1Step ==
  /\ pc = "pass1"
  /\ i < Len(rawPixelData)
  /\ colorTotals' = Pass1Body(colorTotals, rawPixelData, i)
  /\ i' = i + 4
  /\ steps' = Append(steps, "pass1")
  /\ UNCHANGED <<mapPage, uploadPage, parked, request, pc, width, height, rawPixelData, averages,
                 metrics, overallQuality, safetyStatus, safetyArg, recommendations,
                 response, thrown>>

Pass1End ==
  /\ pc = "pass1"
  /\ ~(i < Len(rawPixelData))
  /\ averages' = MakeAverages(colorTotals, width * height)
  /\ i' = 0
  /\ pc' = "pass2"
  /\ steps' = Append(steps, "averages")
  /\ UNCHANGED <<mapPage, uploadPage, parked, request, width, height, rawPixelData, colorTotals,
                 metrics, overallQuality, safetyStatus, safetyArg, recommendations,
                 response, thrown>>

Pass2Step ==
  /\ pc = "pass2"
  /\ i < Len(rawPixelData)
  /\ colorTotals' = Pass2Body(colorTotals, averages, rawPixelData, i)
  /\ i' = i + 4
  /\ steps' = Append(steps, "pass2")
  /\ UNCHANGED <<mapPage, uploadPage, parked, request, pc, width, height, rawPixelData, averages,
                 metrics, overallQuality, safetyStatus, safetyArg, recommendations,
                 response, thrown>>

\* the end of the second pass with a measurement noise term on the
\* temperature, drawn anew at each call
Pass2EndJitter ==
  /\ pc = "pass2"
  /\ ~(i < Len(rawPixelData))
  /\ averages' = SetVariance(colorTotals, averages, width * height)
  /\ \E noise \in {0, 1} :
       metrics' = [DeriveMetrics(averages') EXCEPT
                     !.temperature = RAdd(@, Num(noise))]
  /\ pc' = "determine"
  /\ steps' = Append(steps, "metrics")
  /\ UNCHANGED <<mapPage, uploadPage, parked, request, width, height, rawPixelData, i, colorTotals,
                 overallQuality, safetyStatus, safetyArg, recommendations,
                 response, thrown>>

Pass2End ==
  /\ pc = "pass2"
  /\ ~(i < Len(rawPixelData))
  /\ averages' = SetVariance(colorTotals, averages, width * height)
  /\ metrics' = DeriveMetrics(averages')
  /\ pc' = "determine"
  /\ steps' = Append(steps, "metrics")
  /\ UNCHANGED <<mapPage, uploadPage, parked, request, width, height, rawPixelData, i, colorTotals,
                 overallQuality, safetyStatus, safetyArg, recommendations,
                 response, thrown>>

\* ------------------------------------------------------------------------
\* The rest of POST
\* ------------------------------------------------------------------------
DetermineQuality ==
  /\ pc = "determine"
  /\ overallQuality' = determineWaterQuality(metrics)
  /\ pc' = "assess"
  /\ steps' = Append(steps, "determine")
  /\ UNCHANGED <<mapPage, uploadPage, parked, request, width, height, rawPixelData, i, colorTotals, averages,
                 metrics, safetyStatus, safetyArg, recommendations, response, thrown>>

AssessSafety ==
  /\ pc = "assess"
  /\ safetyStatus' = assessWaterSafety(metrics)
  /\ pc' = "generate"
  /\ steps' = Append(steps, "assess")
  /\ UNCHANGED <<mapPage, uploadPage, parked, request, width, height, rawPixelData, i, colorTotals, averages,
                 metrics, overallQuality, safetyArg, recommendations, response, thrown>>

GenerateRecommendations ==
  /\ pc = "generate"
  /\ safetyArg' = safetyStatus
  /\ recommendations' = generateRecommendations(metrics, safetyStatus)
  /\ pc' = "respond"
  /\ steps' = Append(steps, "generate")
  /\ UNCHANGED <<mapPage, uploadPage, parked, request, width, height, rawPixelData, i, colorTotals, averages,
                 metrics, overallQuality, safetyStatus, response, thrown>>

Respond ==
  /\ pc = "respond"
  /\ response' = ResultResponse([overallQuality |-> overallQuality,
                                 metrics |-> metrics,
                                 recommendations |-> recommendations,
                                 safetyStatus |-> safetyStatus])
  /\ pc' = "done"
  /\ steps' = Append(steps, "respond")
  /\ UNCHANGED <<mapPage, uploadPage, parked, request, width, height, rawPixelData, i, colorTotals, averages,
                 metrics, overallQuality, safetyStatus, safetyArg, recommendations,
                 thrown>>

Next ==
  \/ ParseForm
  \/ ReadBytes
  \/ ReadMetadata
  \/ DecodeRaw
  \/ Pass1Step
  \/ Pass1End
  \/ Pass2Step
  \/ Pass2End
  \/ DetermineQuality
  \/ AssessSafety
  \/ GenerateRecommendations
  \/ Respond

Spec == Init /\ [][Next]_vars

\* ------------------------------------------------------------------------
\* The classifier, the assessor and the generator called on metrics built
\* directly, without an image
\* ------------------------------------------------------------------------
UnitPh == {NaN, Num(6), Frac(129, 20), Frac(13, 2), Num(7), Frac(17, 2), Num(9), Frac(19, 2)}
UnitTurbidity == {Frac(1, 2), Num(1), Num(5), Num(6)}
UnitDissolvedOxygen == {Num(3), Num(4), Num(6), Num(7), Num(15)}
UnitTDS == {Num(400), Num(500), Num(600), Num(2500)}
UnitChlorine == {Frac(1, 10), Frac(1, 5), Num(1), Num(4)}
UnitHardness == {Num(120), Num(180), Num(192), Num(193), Num(300)}
UnitTemperatureConductivity == {<<Num(0), Num(0)>>}

UnitMetrics ==
  {[ph |-> p, turbidity |-> t, dissolvedOxygen |-> o, temperature |-> tc[1],
    conductivity |-> tc[2], totalDissolvedSolids |-> d, chlorine |-> c,
    hardness |-> h] :
     p \in UnitPh, t \in UnitTurbidity, o \in UnitDissolvedOxygen, d \in UnitTDS,
     c \in UnitChlorine, h \in UnitHardness, tc \in UnitTemperatureConductivity}

SafetyFlags == [isDrinkable : BOOLEAN, isSwimmable : BOOLEAN, isIrrigationSafe : BOOLEAN]

NoRequest == [kind |-> "none", fmt |-> "none", image |-> NoImage]

InitUnit ==
  /\ request = NoRequest
  /\ pc = "determine"
  /\ width = 0
  /\ height = 0
  /\ rawPixelData = <<>>
  /\ i = 0
  /\ colorTotals = ZeroTotals
  /\ averages = ZeroTotals
  /\ metrics \in UnitMetrics
  /\ overallQuality = ""
  /\ safetyStatus = NoSafety
  /\ safetyArg = NoSafety
  /\ recommendations = <<>>
  /\ response = NoResponse
  /\ steps = <<>>
  /\ thrown = ""
  /\ mapPage = InitialMapPage
  /\ uploadPage = InitialUploadPage
  /\ parked = <<>>

\* generateRecommendations called with safety flags of the caller's choice
CallGenerateRecommendations(safety) ==
  /\ pc = "generate"
  /\ safetyArg' = safety
  /\ recommendations' = generateRecommendations(metrics, safety)
  /\ pc' = "called"
  /\ steps' = Append(steps, "generate")
  /\ UNCHANGED <<mapPage, uploadPage, parked, request, width, height, rawPixelData, i, colorTotals, averages,
                 metrics, overallQuality, safetyStatus, response, thrown>>

NextUnit ==
  \/ DetermineQuality
  \/ AssessSafety
  \/ \E safety \in SafetyFlags : CallGenerateRecommendations(safety)

SpecUnit == InitUnit /\ [][NextUnit]_vars

\* ------------------------------------------------------------------------
\* Several POST invocations in one server process. One invocation runs at a
\* time; the others are suspended at an await (or not yet started, or
\* finished) and keep their own locals in parked. The running invocation
\* is left only at a suspension point.
\* ------------------------------------------------------------------------
MaxInvocations == 3

\* the requests served concurrently
ServerImages ==
  {[width |-> 1, height |-> 1, channels |-> 4,
    pixels |-> PixelSamples(<<255, 255, 255>>, 4)],
   [width |-> 1, height |-> 2, channels |-> 4,
    pixels |-> PixelSamples(<<102, 153, 204>>, 4) \o PixelSamples(<<255, 255, 204>>, 4)]}

ServerRequests ==
  MalformedRequests
    \cup {[kind |-> "absent", fmt |-> "none", image |-> NoImage]}
    \cup BadBlobRequests
    \cup {[kind |-> "blob", fmt |-> "image", image |-> m] : m \in ServerImages}

\* the locals of the running invocation
Running ==
  [request |-> request, pc |-> pc, width |-> width, height |-> height,
   rawPixelData |-> rawPixelData, i |-> i, colorTotals |-> colorTotals,
   averages |-> averages, metrics |-> metrics, overallQuality |-> overallQuality,
   safetyStatus |-> safetyStatus, safetyArg |-> safetyArg,
   recommendations |-> recommendations, response |-> response, steps |-> steps,
   thrown |-> thrown]

\* the locals of an invocation that has not started
NewInvocation(r) ==
  [request |-> r, pc |-> "formData", width |-> 0, height |-> 0,
   rawPixelData |-> <<>>, i |-> 0, colorTotals |-> ZeroTotals,
   averages |-> ZeroTotals, metrics |-> NoMetrics, overallQuality |-> "",
   safetyStatus |-> NoSafety, safetyArg |-> NoSafety,
   recommendations |-> <<>>, response |-> NoResponse, steps |-> <<>>,
   thrown |-> ""]

InitServer ==
  /\ request \in ServerRequests
  /\ pc = "formData"
  /\ width = 0
  /\ height = 0
  /\ rawPixelData = <<>>
  /\ i = 0
  /\ colorTotals = ZeroTotals
  /\ averages = ZeroTotals
  /\ metrics = NoMetrics
  /\ overallQuality = ""
  /\ safetyStatus = NoSafety
  /\ safetyArg = NoSafety
  /\ recommendations = <<>>
  /\ response = NoResponse
  /\ steps = <<>>
  /\ thrown = ""
  /\ mapPage = InitialMapPage
  /\ uploadPage = InitialUploadPage
  /\ parked \in [1..(MaxInvocations - 1) -> {NewInvocation(r) : r \in ServerRequests}]

\* the running invocation awaits (or has returned)
Suspended == pc \in {"formData", "arrayBuffer", "metadata", "toBuffer", "done"}

\* the event loop resumes parked invocation k, with width and height kept
\* in module-level variables that all invocations share
SwitchSharedDimensions(k) ==
  /\ Suspended
  /\ parked[k].pc # "done"
  /\ parked' = [parked EXCEPT ![k] = Running]
  /\ UNCHANGED <<mapPage, uploadPage>>
  /\ request' = parked[k].request
  /\ pc' = parked[k].pc
  /\ rawPixelData' = parked[k].rawPixelData
  /\ i' = parked[k].i
  /\ colorTotals' = parked[k].colorTotals
  /\ averages' = parked[k].averages
  /\ metrics' = parked[k].metrics
  /\ overallQuality' = parked[k].overallQuality
  /\ safetyStatus' = parked[k].safetyStatus
  /\ safetyArg' = parked[k].safetyArg
  /\ recommendations' = parked[k].recommendations
  /\ response' = parked[k].response
  /\ steps' = parked[k].steps
  /\ thrown' = parked[k].thrown
  /\ UNCHANGED <<width, height>>

\* the event loop resumes parked invocation k: the running invocation keeps
\* its locals, those of invocation k become current
Switch(k) ==
  /\ Suspended
  /\ parked[k].pc # "done"
  /\ parked' = [parked EXCEPT ![k] = Running]
  /\ UNCHANGED <<mapPage, uploadPage>>
  /\ request' = parked[k].request
  /\ pc' = parked[k].pc
  /\ width' = parked[k].width
  /\ height' = parked[k].height
  /\ rawPixelData' = parked[k].rawPixelData
  /\ i' = parked[k].i
  /\ colorTotals' = parked[k].colorTotals
  /\ averages' = parked[k].averages
  /\ metrics' = parked[k].metrics
  /\ overallQuality' = parked[k].overallQuality
  /\ safetyStatus' = parked[k].safetyStatus
  /\ safetyArg' = parked[k].safetyArg
  /\ recommendations' = parked[k].recommendations
  /\ response' = parked[k].response
  /\ steps' = parked[k].steps
  /\ thrown' = parked[k].thrown

NextServer ==
  \/ ParseForm
  \/ ReadBytes
  \/ ReadMetadata
  \/ DecodeRaw
  \/ Pass1Step
  \/ Pass1End
  \/ Pass2Step
  \/ Pass2End
  \/ DetermineQuality
  \/ AssessSafety
  \/ GenerateRecommendations
  \/ Respond
  \/ \E k \in 1..(MaxInvocations - 1) : Switch(k)

SpecServer == InitServer /\ [][NextServer]_vars

\* ------------------------------------------------------------------------
\* Vocabulary of the properties
\* ------------------------------------------------------------------------
Ran(q) == {q[k] : k \in DOMAIN q}
Done(step) == step \in Ran(steps)
InClosedRange(x, lo, hi) == RLe(lo, x) /\ RLe(x, hi)

\* the buffer handed to analyzeImage is a valid PixelBuffer
ValidPixelBuffer ==
  /\ width > 0
  /\ height > 0
  /\ Len(rawPixelData) = width * height * 4
  /\ \A k \in DOMAIN rawPixelData : rawPixelData[k] \in 0..255

AllInDeclaredRange(m) ==
  /\ InClosedRange(m.ph, Num(0), Num(14))
  /\ InClosedRange(m.turbidity, Num(0), Num(40))
  /\ InClosedRange(m.dissolvedOxygen, Num(0), Num(15))
  /\ InClosedRange(m.temperature, Num(0), Num(40))
  /\ InClosedRange(m.conductivity, Num(0), Num(2000))
  /\ InClosedRange(m.totalDissolvedSolids, Num(0), Num(1000))
  /\ InClosedRange(m.chlorine, Num(0), Num(4))
  /\ InClosedRange(m.hardness, Num(0), Num(300))

\* ------------------------------------------------------------------------
\* C1: for every valid pixel buffer, each of the eight metrics analyzeImage
\* returns is a number inside its declared range.
\* The code violates it: an image whose red and green samples are all 0
\* (all-black) has ph = NaN.
\* ------------------------------------------------------------------------
C1_MetricsInDeclaredRanges ==
  (Done("metrics") /\ ValidPixelBuffer) => AllInDeclaredRange(metrics)

\* ------------------------------------------------------------------------
\* C2: assessWaterSafety computes each flag from the metrics alone as the
\* stated conjunction of inclusive range checks; the metrics ph = 7.0,
\* turbidity = 0.5, dissolvedOxygen = 7, totalDissolvedSolids = 400,
\* chlorine = 1.0 are drinkable.
\* ------------------------------------------------------------------------
ClaimDrinkable(m) ==
  /\ InClosedRange(m.ph, Frac(65, 10), Frac(85, 10))
  /\ RLe(m.turbidity, Num(1))
  /\ RLe(Num(6), m.dissolvedOxygen)
  /\ RLe(m.totalDissolvedSolids, Num(500))
  /\ InClosedRange(m.chlorine, Frac(2, 10), Num(4))
ClaimSwimmable(m) ==
  /\ InClosedRange(m.ph, Num(6), Num(9))
  /\ RLe(m.turbidity, Num(5))
  /\ RLe(Num(4), m.dissolvedOxygen)
ClaimIrrigationSafe(m) ==
  /\ InClosedRange(m.ph, Num(6), Frac(85, 10))
  /\ RLe(m.totalDissolvedSolids, Num(2000))

IsDrinkableExample(m) ==
  /\ m.ph = Num(7)
  /\ m.turbidity = Frac(1, 2)
  /\ m.dissolvedOxygen = Num(7)
  /\ m.totalDissolvedSolids = Num(400)
  /\ m.chlorine = Num(1)

C2_SafetyFlagsAreTheConjunctions ==
  Done("assess") =>
    /\ safetyStatus.isDrinkable = ClaimDrinkable(metrics)
    /\ safetyStatus.isSwimmable = ClaimSwimmable(metrics)
    /\ safetyStatus.isIrrigationSafe = ClaimIrrigationSafe(metrics)
    /\ (IsDrinkableExample(metrics) => safetyStatus.isDrinkable)

C2_Witness ==
  /\ Done("assess")
  /\ IsDrinkableExample(metrics)
  /\ safetyStatus.isDrinkable

\* ------------------------------------------------------------------------
\* C3: determineWaterQuality returns one of the four labels, the one fixed
\* by the equal-weight mean of the six scores with inclusive lower bounds
\* 0.9 / 0.7 / 0.5; a mean of exactly 0.9 is Excellent.
\* ------------------------------------------------------------------------
\* score = 1 inside [lo, hi], otherwise max(0, 1 - |value - midpoint|/(hi - lo))
ClaimScore(value, lo, hi) ==
  IF InClosedRange(value, lo, hi) THEN Num(1)
  ELSE LET midpoint == RMul(RAdd(lo, hi), Frac(1, 2))
           distance == IF RLt(value, midpoint) THEN RSub(midpoint, value)
                       ELSE RSub(value, midpoint)
       IN  MathMax(Num(0), RSub(Num(1), RDiv(distance, RSub(hi, lo))))

\* the sum of the six scores (six times their mean)
ClaimScoreSum(m) ==
  RAdd(ClaimScore(m.ph, Frac(65, 10), Frac(85, 10)),
  RAdd(ClaimScore(m.turbidity, Num(0), Num(5)),
  RAdd(ClaimScore(m.dissolvedOxygen, Num(6), Num(8)),
  RAdd(ClaimScore(m.totalDissolvedSolids, Num(0), Num(500)),
  RAdd(ClaimScore(m.chlorine, Frac(2, 10), Num(2)),
       ClaimScore(m.hardness, Num(60), Num(180)))))))

ClaimMean(m) == RMul(ClaimScoreSum(m), Frac(1, 6))

ClaimLabel(mean) ==
  IF RLe(Frac(9, 10), mean) THEN "Excellent"
  ELSE IF RLe(Frac(7, 10), mean) THEN "Good"
  ELSE IF RLe(Frac(5, 10), mean) THEN "Fair"
  ELSE "Poor"

C3_LabelIsFixedByMeanScore ==
  Done("determine") =>
    /\ overallQuality \in {"Excellent", "Good", "Fair", "Poor"}
    /\ overallQuality = ClaimLabel(ClaimMean(metrics))
    /\ (ClaimMean(metrics) = Frac(9, 10) => overallQuality = "Excellent")

C3_Witness ==
  /\ Done("determine")
  /\ ClaimMean(metrics) = Frac(9, 10)
  /\ overallQuality = "Excellent"

\* ------------------------------------------------------------------------
\* C4: with the safety flags computed from the same metrics, the list is
\* the single "within acceptable ranges" message exactly when none of the
\* triggering conditions fires (ph < 6.5 or ph > 8.5, turbidity > 1,
\* chlorine < 0.2, hardness > 180, totalDissolvedSolids > 500), and does
\* not contain that message when any of them fires.
\* ------------------------------------------------------------------------
PhTrigger(m) == RLt(m.ph, Frac(65, 10)) \/ RLt(Frac(85, 10), m.ph)
TurbidityTrigger(m) == RLt(Num(1), m.turbidity)
ChlorineTrigger(m) == RLt(m.chlorine, Frac(2, 10))
HardnessTrigger(m) == RLt(Num(180), m.hardness)
TDSTrigger(m) == RLt(Num(500), m.totalDissolvedSolids)

AnyTrigger(m) ==
  \/ PhTrigger(m)
  \/ TurbidityTrigger(m)
  \/ ChlorineTrigger(m)
  \/ HardnessTrigger(m)
  \/ TDSTrigger(m)

FlagsFromSameMetrics == Done("assess") /\ Done("generate") /\ safetyArg = safetyStatus

C4_FallbackExactlyWhenNothingFires ==
  FlagsFromSameMetrics =>
    /\ (~AnyTrigger(metrics) <=> recommendations = <<AcceptableMessage>>)
    /\ (AnyTrigger(metrics) => AcceptableMessage \notin Ran(recommendations))

C4_Witness ==
  /\ FlagsFromSameMetrics
  /\ ~AnyTrigger(metrics)
  /\ recommendations = <<AcceptableMessage>>

\* ------------------------------------------------------------------------
\* C5: for any metrics and any safety flags, the advisories returned are
\* the subsequence of [pH, turbidity, low chlorine, softener, reverse
\* osmosis] made of exactly the messages whose condition holds, each once
\* and in that order.
\* ------------------------------------------------------------------------
\* the five advisories in the fixed order, each with its condition
ClaimAdvisories(m, safety) ==
  <<[on |-> ~safety.isDrinkable /\ PhTrigger(m),
     message |-> IF PhTrigger(m) THEN PhMessage(m.ph) ELSE TurbidityMessage],
    [on |-> ~safety.isDrinkable /\ TurbidityTrigger(m), message |-> TurbidityMessage],
    [on |-> ~safety.isDrinkable /\ ChlorineTrigger(m), message |-> ChlorineMessage],
    [on |-> HardnessTrigger(m), message |-> SoftenerMessage],
    [on |-> TDSTrigger(m), message |-> ReverseOsmosisMessage]>>

IsOn(entry) == entry.on
IsAdvisory(message) == message # AcceptableMessage

RECURSIVE Messages(_)
Messages(entries) ==
  IF entries = <<>> THEN <<>>
  ELSE <<Head(entries).message>> \o Messages(Tail(entries))

ClaimAdvisoryList(m, safety) == Messages(SelectSeq(ClaimAdvisories(m, safety), IsOn))

C5_AdvisoriesInFixedOrder ==
  Done("generate") =>
    SelectSeq(recommendations, IsAdvisory) = ClaimAdvisoryList(metrics, safetyArg)

C5_Witness ==
  /\ Done("generate")
  /\ Len(recommendations) = 5
  /\ recommendations =
       <<PhMessage(metrics.ph), TurbidityMessage, ChlorineMessage, SoftenerMessage,
         ReverseOsmosisMessage>>

\* ------------------------------------------------------------------------
\* C6: when the "file" value is absent or is not a Blob, POST answers 400
\* with an error object before any decode, statistics or metric step runs,
\* and never answers 500.
\* ------------------------------------------------------------------------
NoBlobSupplied == request.kind \in {"absent", "string"}

C6_NoBlobIsRejectedWith400 ==
  NoBlobSupplied =>
    /\ response.status # 500
    /\ steps \in {<<>>, <<"formData">>}
    /\ rawPixelData = <<>> /\ metrics = NoMetrics
    /\ (pc = "done" => response.status = 400 /\ DOMAIN response.body = {"error"})

C6_Witness ==
  /\ request.kind = "string"
  /\ pc = "done"
  /\ response.status = 400

\* ------------------------------------------------------------------------
\* C7: a supplied file of zero bytes fails with InvalidInputError, the 400
\* answer of the input check, not the 500 answer of the processing path.
\* The code violates it: the empty Blob passes the input check and the
\* decoder's rejection is caught and answered with 500.
\* ------------------------------------------------------------------------
EmptyFileSupplied == request.kind = "blob" /\ request.fmt = "empty"

C7_EmptyFileIsInvalidInput ==
  (pc = "done" /\ EmptyFileSupplied) => response.status = 400

\* ------------------------------------------------------------------------
\* C8: every response is either 200 with the four AnalysisResult fields or
\* 400/500 with only an error field; bytes that are no image, or an image
\* without usable width or height, always end in the 500 error answer.
\* ------------------------------------------------------------------------
ResultFields == {"overallQuality", "metrics", "safetyStatus", "recommendations"}

Undecodable ==
  /\ request.kind = "blob"
  /\ \/ request.fmt \in {"empty", "notimage", "corrupt"}
     \/ request.fmt = "image" /\ (request.image.width = 0 \/ request.image.height = 0)

C8_AllOrNothing ==
  /\ pc # "done" => response.status = 0
  /\ pc = "done" =>
       \/ /\ response.status = 200
          /\ DOMAIN response.body = ResultFields
          /\ response.body.metrics = metrics
          /\ response.body.overallQuality \in {"Excellent", "Good", "Fair", "Poor"}
          /\ response.body.safetyStatus = safetyStatus
          /\ response.body.recommendations = recommendations
          /\ Len(recommendations) > 0
       \/ /\ response.status \in {400, 500}
          /\ DOMAIN response.body = {"error"}
  /\ (pc = "done" /\ Undecodable) =>
       response.status = 500 /\ DOMAIN response.body = {"error"}

C8_Witness ==
  /\ pc = "done"
  /\ Undecodable
  /\ request.fmt = "image"
  /\ response.status = 500

\* ------------------------------------------------------------------------
\* C9: the buffer handed to the statistics scan has the 4-sample stride:
\* for every decodable image, also one without an alpha channel, its
\* length is width*height*4 and no pass reads past its end.
\* The code violates it: the raw buffer of a 3-channel image has
\* width*height*3 samples.
\* ------------------------------------------------------------------------
Decoded == Done("toBuffer") /\ request.fmt = "image"

C9_BufferHasFourSampleStride ==
  Decoded =>
    /\ Len(rawPixelData) = width * height * 4
    /\ (pc \in {"pass1", "pass2"} /\ i < Len(rawPixelData)) => i + 3 <= Len(rawPixelData)

\* ------------------------------------------------------------------------
\* C10: when the green average is 0, calculatePH still returns a finite
\* number in [0,14], also when the red average is 0 too.
\* The code violates it: 0/0 is NaN and the clamp keeps NaN.
\* ------------------------------------------------------------------------
C10_PhFiniteWhenGreenAverageIsZero ==
  (Done("metrics") /\ ValidPixelBuffer /\ averages.green = Num(0)) =>
    IsFinite(metrics.ph) /\ InClosedRange(metrics.ph, Num(0), Num(14))

\* ------------------------------------------------------------------------
\* C11: for a uniform image the statistics have variance 0 and averages
\* equal to the pixel's channels, with saturation 0 when the pixel is grey;
\* pure white gives saturation 0, variance 0, brightness 255, turbidity 0,
\* temperature 40; pure black gives brightness 0, saturation 0, variance 0,
\* turbidity 40, dissolvedOxygen 0, hardness 0.
\* The code violates it for a uniform image without alpha channel of two
\* or more pixels (the stride of C9): the second iteration reads past the
\* end of the buffer and the sums become NaN.
\* ------------------------------------------------------------------------
\* the colour <<r, g, b>> of pixel k (from 1) of the uploaded image
ColourOfPixel(image, k) ==
  <<image.pixels[(k - 1) * image.channels + 1],
    image.pixels[(k - 1) * image.channels + 2],
    image.pixels[(k - 1) * image.channels + 3]>>

PixelCount(image) == image.width * image.height

UniformImage(image, colour) ==
  /\ PixelCount(image) > 0
  /\ Len(image.pixels) = PixelCount(image) * image.channels
  /\ \A k \in 1..PixelCount(image) : ColourOfPixel(image, k) = colour

UniformStatistics(colour) ==
  /\ averages.red = Num(colour[1])
  /\ averages.green = Num(colour[2])
  /\ averages.blue = Num(colour[3])
  /\ averages.brightness = Frac(colour[1] + colour[2] + colour[3], 3)
  /\ averages.variance = Num(0)
  /\ (colour[1] = colour[2] /\ colour[2] = colour[3]) => averages.saturation = Num(0)

WhiteResults ==
  /\ averages.saturation = Num(0)
  /\ averages.variance = Num(0)
  /\ averages.brightness = Num(255)
  /\ metrics.turbidity = Num(0)
  /\ metrics.temperature = Num(40)

BlackResults ==
  /\ averages.brightness = Num(0)
  /\ averages.saturation = Num(0)
  /\ averages.variance = Num(0)
  /\ metrics.turbidity = Num(40)
  /\ metrics.dissolvedOxygen = Num(0)
  /\ metrics.hardness = Num(0)

C11_UniformImageStatistics ==
  (Done("metrics") /\ request.fmt = "image") =>
    /\ \A colour \in Palette :
         UniformImage(request.image, colour) => UniformStatistics(colour)
    /\ UniformImage(request.image, <<255, 255, 255>>) => WhiteResults
    /\ UniformImage(request.image, <<0, 0, 0>>) => BlackResults

\* ------------------------------------------------------------------------
\* One POST invocation as a function of its request: what the request gets
\* when it is the only one served
\* ------------------------------------------------------------------------
RECURSIVE Pass1Loop(_, _, _)
Pass1Loop(totals, pixelData, k) ==
  IF k < Len(pixelData)
  THEN Pass1Loop(Pass1Body(totals, pixelData, k), pixelData, k + 4)
  ELSE totals

RECURSIVE Pass2Loop(_, _, _, _)
Pass2Loop(totals, avgs, pixelData, k) ==
  IF k < Len(pixelData)
  THEN Pass2Loop(Pass2Body(totals, avgs, pixelData, k), avgs, pixelData, k + 4)
  ELSE totals

analyzeImage(pixelData, w, h) ==
  LET sums == Pass1Loop(ZeroTotals, pixelData, 0)
      avgs == MakeAverages(sums, w * h)
      squares == Pass2Loop(sums, avgs, pixelData, 0)
  IN DeriveMetrics(SetVariance(squares, avgs, w * h))

POST(r) ==
  IF r.kind = "malformed" THEN FailureResponse
  ELSE IF r.kind # "blob" THEN InvalidInputResponse
  ELSE IF r.fmt \in {"empty", "notimage"} THEN FailureResponse
  ELSE IF r.image.width = 0 \/ r.image.height = 0 THEN FailureResponse
  ELSE IF r.fmt = "corrupt" THEN FailureResponse
  ELSE LET imageAnalysis == analyzeImage(r.image.pixels, r.image.width, r.image.height)
           safety == assessWaterSafety(imageAnalysis)
       IN ResultResponse([overallQuality |-> determineWaterQuality(imageAnalysis),
                          metrics |-> imageAnalysis,
                          recommendations |-> generateRecommendations(imageAnalysis, safety),
                          safetyStatus |-> safety])

\* all invocations of the server, running or parked
Invocations == {Running} \cup Ran(parked)
Returned(inv) == inv.pc = "done"
Succeeded(inv) == Returned(inv) /\ inv.response.status = 200

\* ------------------------------------------------------------------------
\* C12: analysis is deterministic: two runs of the pipeline on the same
\* input, in any order and with any other requests in between, produce
\* identical results (quality, metrics, flags, recommendation list).
\* ------------------------------------------------------------------------
C12_SameInputSameResult ==
  \A a \in Invocations : \A b \in Invocations :
    (Returned(a) /\ Returned(b) /\ a.request = b.request) =>
      a.response = b.response

\* two analyses of the same image have returned, a different request was
\* served in between
C12_Witness ==
  /\ Succeeded(Running)
  /\ \E k \in DOMAIN parked : \E l \in DOMAIN parked :
       /\ Succeeded(parked[k])
       /\ parked[k].request = request
       /\ parked[k].response = response
       /\ parked[l].request # request
       /\ parked[l].pc \in {"metadata", "toBuffer", "done"}

\* ------------------------------------------------------------------------
\* C13: concurrent requests do not interfere: for any interleaving of POST
\* invocations at their suspension points, each request's response equals
\* the response the same request gets when run alone.
\* ------------------------------------------------------------------------
\* An invocation returns only while it is the running one, and its locals
\* are kept as they are while it is parked, so the response is compared at
\* the invocation that runs.
C13_ResponseAsWhenRunAlone ==
  Returned(Running) => response = POST(request)

\* an analysis has returned while the analysis of an image of another size
\* is suspended between its metadata read and its raw decode
C13_Witness ==
  /\ Succeeded(Running)
  /\ response = POST(request)
  /\ \E k \in DOMAIN parked :
       /\ parked[k].pc = "toBuffer"
       /\ parked[k].width * parked[k].height # width * height

\* ------------------------------------------------------------------------
\* C14: no internal exception detail reaches the caller: the error body of
\* a failed request is a fixed generic message chosen only by the failure
\* class (input check or thrown exception), so two failing requests of the
\* same class receive identical status and body whatever was thrown.
\* ------------------------------------------------------------------------
Failed(inv) == Returned(inv) /\ inv.response.status # 200
FailureClass(inv) == IF inv.thrown = "" THEN "input check" ELSE "exception"
GenericBody(class) ==
  IF class = "input check" THEN [error |-> "Invalid file input"]
  ELSE [error |-> "Failed to analyze the image"]

C14_ErrorBodyFixedByFailureClass ==
  /\ \A a \in Invocations :
       Failed(a) =>
         /\ a.response.body = GenericBody(FailureClass(a))
         /\ a.response.body.error # a.thrown
  /\ \A a \in Invocations : \A b \in Invocations :
       (Failed(a) /\ Failed(b) /\ FailureClass(a) = FailureClass(b)) =>
         a.response = b.response

\* two requests have failed with different exceptions and got the same answer
C14_Witness ==
  /\ Failed(Running)
  /\ thrown # ""
  /\ \E k \in DOMAIN parked :
       /\ Failed(parked[k])
       /\ parked[k].thrown # ""
       /\ parked[k].thrown # thrown
       /\ parked[k].response = response

\* ------------------------------------------------------------------------
\* C15: the two passes run strictly in order: pass 2 starts only after pass
\* 1 has visited every pixel and the averages are fixed, and the metrics
\* are derived only after pass 2 has visited every pixel; the resulting
\* variance equals sqrt(sum over all pixels of [(r-avgR)^2 + (g-avgG)^2 +
\* (b-avgB)^2] / (totalPixels*3)), one pooled figure over the three
\* channels.
\* The order holds, the variance does not for an image without alpha
\* channel of two or more pixels (the stride of C9).
\* ------------------------------------------------------------------------
StageRank(step) ==
  IF step = "pass1" THEN 1
  ELSE IF step = "averages" THEN 2
  ELSE IF step = "pass2" THEN 3
  ELSE IF step = "metrics" THEN 4
  ELSE IF step \in {"determine", "assess", "generate", "respond"} THEN 5
  ELSE 0

StepCount(step) == Cardinality({k \in DOMAIN steps : steps[k] = step})

PassesInOrder ==
  /\ \A j \in DOMAIN steps : \A k \in DOMAIN steps :
       j < k => StageRank(steps[j]) <= StageRank(steps[k])
  /\ StepCount("pass1") = PixelCount(request.image)
  /\ StepCount("averages") = 1
  /\ StepCount("pass2") = PixelCount(request.image)

RECURSIVE ChannelSum(_, _, _)
ChannelSum(image, channel, k) ==
  IF k = 0 THEN 0
  ELSE ColourOfPixel(image, k)[channel] + ChannelSum(image, channel, k - 1)

ChannelMean(image, channel) ==
  Frac(ChannelSum(image, channel, PixelCount(image)), PixelCount(image))

SquaredDistance(image, k) ==
  RAdd(RAdd(MathPow2(RSub(Num(ColourOfPixel(image, k)[1]), ChannelMean(image, 1))),
            MathPow2(RSub(Num(ColourOfPixel(image, k)[2]), ChannelMean(image, 2)))),
       MathPow2(RSub(Num(ColourOfPixel(image, k)[3]), ChannelMean(image, 3))))

RECURSIVE SquaredDistanceSum(_, _)
SquaredDistanceSum(image, k) ==
  IF k = 0 THEN Num(0)
  ELSE RAdd(SquaredDistanceSum(image, k - 1), SquaredDistance(image, k))

PooledDeviation(image) ==
  MathSqrt(RDiv(SquaredDistanceSum(image, PixelCount(image)),
                Num(PixelCount(image) * 3)))

C15_TwoPassesThenPooledVariance ==
  (Done("metrics") /\ request.fmt = "image") =>
    /\ PassesInOrder
    /\ averages.variance = PooledDeviation(request.image)

\* ------------------------------------------------------------------------
\* C16: temperature and conductivity are excluded from scoring: for any
\* two metrics values that differ only in temperature and/or conductivity,
\* determineWaterQuality returns the same overallQuality.
\* ------------------------------------------------------------------------
OtherTemperatures == {NaN, Num(0), Num(20), Num(40)}
OtherConductivities == {Num(0), Num(2000)}

\* overallQuality is written by DetermineQuality only, so it is compared in
\* the state that DetermineQuality leaves
C16_QualityIgnoresTemperatureAndConductivity ==
  pc = "assess" =>
    \A t \in OtherTemperatures : \A c \in OtherConductivities :
      determineWaterQuality([metrics EXCEPT !.temperature = t, !.conductivity = c])
        = overallQuality

\* a label computed at temperature 0 and conductivity 0 that the metrics at
\* 20 degrees and 2000 uS/cm get as well
C16_Witness ==
  /\ pc = "assess"
  /\ metrics.temperature = Num(0)
  /\ metrics.conductivity = Num(0)
  /\ overallQuality = "Good"
  /\ determineWaterQuality([metrics EXCEPT !.temperature = Num(20),
                                           !.conductivity = Num(2000)]) = "Good"

\* ------------------------------------------------------------------------
\* C17: for every metrics value, isDrinkable = true implies isSwimmable =
\* true and isIrrigationSafe = true.
\* ------------------------------------------------------------------------
C17_DrinkableIsSwimmableAndIrrigationSafe ==
  Done("assess") =>
    (safetyStatus.isDrinkable =>
       safetyStatus.isSwimmable /\ safetyStatus.isIrrigationSafe)

\* drinkable water at the turbidity bound of isDrinkable
C17_Witness ==
  /\ Done("assess")
  /\ metrics.turbidity = Num(1)
  /\ safetyStatus.isDrinkable
  /\ safetyStatus.isSwimmable
  /\ safetyStatus.isIrrigationSafe

\* ------------------------------------------------------------------------
\* C18: for all metrics within their declared ranges, with the safety
\* flags computed by assessWaterSafety from the same metrics, the fallback
\* message "Water quality is within acceptable ranges..." is emitted only
\* when isDrinkable is true; water flagged not drinkable always receives
\* at least one specific advisory.
\* As stated it fails: water that is not drinkable only because its
\* dissolved oxygen is below 6 gets the fallback message.
\* ------------------------------------------------------------------------
FallbackEmitted == AcceptableMessage \in Ran(recommendations)
SpecificAdvisoryEmitted ==
  \E k \in DOMAIN recommendations : recommendations[k] # AcceptableMessage

C18_FallbackOnlyWhenDrinkable ==
  (FlagsFromSameMetrics /\ AllInDeclaredRange(metrics)) =>
    /\ FallbackEmitted => safetyStatus.isDrinkable
    /\ ~safetyStatus.isDrinkable => SpecificAdvisoryEmitted

\* C18, amended: under the same conditions the fallback message is emitted
\* only when isDrinkable is true or dissolvedOxygen is below 6; water
\* flagged not drinkable with dissolvedOxygen of at least 6 always
\* receives at least one specific advisory.
C18_FallbackOnlyWhenDrinkableOrLowOxygen ==
  (FlagsFromSameMetrics /\ AllInDeclaredRange(metrics)) =>
    /\ FallbackEmitted =>
         safetyStatus.isDrinkable \/ RLt(metrics.dissolvedOxygen, Num(6))
    /\ (~safetyStatus.isDrinkable /\ RGe(metrics.dissolvedOxygen, Num(6))) =>
         SpecificAdvisoryEmitted

\* water not drinkable for its low chlorine alone, with its advisory
C18_Witness ==
  /\ FlagsFromSameMetrics
  /\ AllInDeclaredRange(metrics)
  /\ ~safetyStatus.isDrinkable
  /\ RGe(metrics.dissolvedOxygen, Num(6))
  /\ recommendations = <<ChlorineMessage>>

\* ------------------------------------------------------------------------
\* C19: for all metrics within their declared ranges, isDrinkable = true
\* implies that overallQuality is not "Poor": drinkability puts ph,
\* turbidity and totalDissolvedSolids inside their scoring target ranges
\* (score 1 each), so the mean of the six scores is at least 0.5 even when
\* dissolvedOxygen, chlorine and hardness all score 0.
\* ------------------------------------------------------------------------
C19_DrinkableIsNotPoor ==
  (Done("determine") /\ Done("assess") /\ AllInDeclaredRange(metrics)
     /\ safetyStatus.isDrinkable) =>
    /\ overallQuality # "Poor"
    /\ ClaimScore(metrics.ph, Frac(65, 10), Frac(85, 10)) = Num(1)
    /\ ClaimScore(metrics.turbidity, Num(0), Num(5)) = Num(1)
    /\ ClaimScore(metrics.totalDissolvedSolids, Num(0), Num(500)) = Num(1)
    /\ RLe(Frac(1, 2), ClaimMean(metrics))

\* drinkable water whose dissolvedOxygen, chlorine and hardness all score 0
C19_Witness ==
  /\ Done("determine")
  /\ Done("assess")
  /\ AllInDeclaredRange(metrics)
  /\ safetyStatus.isDrinkable
  /\ ClaimScore(metrics.dissolvedOxygen, Num(6), Num(8)) = Num(0)
  /\ ClaimScore(metrics.chlorine, Frac(2, 10), Num(2)) = Num(0)
  /\ ClaimScore(metrics.hardness, Num(60), Num(180)) = Num(0)
  /\ ClaimMean(metrics) = Frac(1, 2)
  /\ overallQuality = "Fair"

\* ------------------------------------------------------------------------
\* C20: for every valid pixel buffer run through the whole pipeline, the
\* recommendation list is never the fallback "within acceptable ranges"
\* message: turbidity <= 1 requires brightness >= 248.625, which forces
\* hardness above 180, so for every image at least one of the turbidity
\* advisory or the softener advisory is emitted.
\* ------------------------------------------------------------------------
C20_ImagesNeverGetTheFallback ==
  (Done("generate") /\ ValidPixelBuffer) =>
    /\ AcceptableMessage \notin Ran(recommendations)
    /\ (TurbidityMessage \in Ran(recommendations)
          \/ SoftenerMessage \in Ran(recommendations))
    /\ RLe(metrics.turbidity, Num(1)) =>
         /\ RGe(averages.brightness, Frac(248625, 1000))
         /\ RGt(metrics.hardness, Num(180))

\* an image clear enough to have no turbidity advisory, with its softener
\* advisory
C20_Witness ==
  /\ Done("generate")
  /\ ValidPixelBuffer
  /\ RLe(metrics.turbidity, Num(1))
  /\ TurbidityMessage \notin Ran(recommendations)
  /\ SoftenerMessage \in Ran(recommendations)

\* ------------------------------------------------------------------------
\* The map page (WaterQualityMap): selections of a monitoring station and
\* the 800 ms timers they start
\* ------------------------------------------------------------------------
MaxTimers == 2

StationNames == {"Alibag", "Panvel", "Pune", "Mumbai"}

waterQualityData ==
  [location \in StationNames |->
     IF location = "Alibag"
     THEN [quality |-> "Good",
           details |-> "Suitable for most aquatic life and recreational activities",
           parameters |-> [ph |-> Frac(75, 10), turbidity |-> Frac(23, 10),
                           dissolved_oxygen |-> Frac(72, 10)]]
     ELSE IF location = "Panvel"
     THEN [quality |-> "Fair",
           details |-> "Moderate concerns about industrial runoff impact",
           parameters |-> [ph |-> Frac(69, 10), turbidity |-> Frac(45, 10),
                           dissolved_oxygen |-> Frac(61, 10)]]
     ELSE IF location = "Pune"
     THEN [quality |-> "Excellent",
           details |-> "Pristine water quality with minimal contamination",
           parameters |-> [ph |-> Frac(72, 10), turbidity |-> Frac(12, 10),
                           dissolved_oxygen |-> Frac(85, 10)]]
     ELSE [quality |-> "Poor",
           details |-> "Significant urban pollution affecting water quality",
           parameters |-> [ph |-> Frac(64, 10), turbidity |-> Frac(87, 10),
                           dissolved_oxygen |-> Frac(43, 10)]]]

\* the variables of the route handler, which the pages leave alone
routeVars ==
  <<request, pc, width, height, rawPixelData, i, colorTotals, averages, metrics,
    overallQuality, safetyStatus, safetyArg, recommendations, response, steps,
    thrown, parked>>

\* no request is being served
RouteIdle ==
  /\ request = NoRequest
  /\ pc = "idle"
  /\ width = 0
  /\ height = 0
  /\ rawPixelData = <<>>
  /\ i = 0
  /\ colorTotals = ZeroTotals
  /\ averages = ZeroTotals
  /\ metrics = NoMetrics
  /\ overallQuality = ""
  /\ safetyStatus = NoSafety
  /\ safetyArg = NoSafety
  /\ recommendations = <<>>
  /\ response = NoResponse
  /\ steps = <<>>
  /\ thrown = ""
  /\ parked = <<>>

InitMap ==
  /\ RouteIdle
  /\ mapPage = InitialMapPage
  /\ uploadPage = InitialUploadPage

\* handleLocationChange up to its await: the two state updates and the
\* timer it starts
HandleLocationChange(location) ==
  /\ Len(mapPage.timers) < MaxTimers
  /\ mapPage' = [mapPage EXCEPT !.loading = TRUE,
                                !.selectedLocation = Some(location),
                                !.timers = Append(@, location)]
  /\ UNCHANGED <<routeVars, uploadPage>>

\* a timer fires and handleLocationChange resumes after its await; the
\* timers have the same delay, so they fire in the order they were started
TimerFires ==
  /\ mapPage.timers # <<>>
  /\ mapPage' = [mapPage EXCEPT !.result = Some(waterQualityData[Head(mapPage.timers)]),
                                !.loading = FALSE,
                                !.timers = Tail(@)]
  /\ UNCHANGED <<routeVars, uploadPage>>

NextMap ==
  \/ \E location \in StationNames : HandleLocationChange(location)
  \/ TimerFires

SpecMap == InitMap /\ [][NextMap]_vars

\* ------------------------------------------------------------------------
\* C21: in the map page, under any interleaving of handleLocationChange
\* calls and their 800 ms timers (a second selection made before the first
\* timer fires included), whenever loading is false and result is non-null
\* the displayed result is the record of the currently selected location.
\* The code violates it: the first timer of two overlapping selections
\* stores the first station's record and clears loading while the second
\* station is selected.
\* ------------------------------------------------------------------------
C21_ResultIsOfSelectedLocation ==
  (~mapPage.loading /\ mapPage.result # Null) =>
    /\ mapPage.selectedLocation # Null
    /\ mapPage.result = Some(waterQualityData[mapPage.selectedLocation[1]])

\* ------------------------------------------------------------------------
\* The upload page (AnalyzePage): file selections, drops, FileReader loads,
\* submissions and the answers of /api/analyze
\* ------------------------------------------------------------------------
MaxReaders == 2

\* the files a user can pick or drop: File.type as <<type, subtype>>, and
\* the request the route handler gets when the file is posted
UploadFiles ==
  {[type |-> <<"image", "png">>,
    request |-> [kind |-> "blob", fmt |-> "image",
                 image |-> [width |-> 1, height |-> 1, channels |-> 4,
                            pixels |-> PixelSamples(<<255, 255, 255>>, 4)]]],
   [type |-> <<"image", "jpeg">>,
    request |-> [kind |-> "blob", fmt |-> "image",
                 image |-> [width |-> 1, height |-> 1, channels |-> 3,
                            pixels |-> PixelSamples(<<102, 153, 204>>, 3)]]],
   [type |-> <<"image", "png">>,
    request |-> [kind |-> "blob", fmt |-> "empty", image |-> NoImage]],
   [type |-> <<"text", "plain">>,
    request |-> [kind |-> "blob", fmt |-> "notimage", image |-> NoImage]]}

\* event.target.files / e.dataTransfer.files: no file, or one
FileLists == {<<>>} \cup {<<file>> : file \in UploadFiles}

\* file.type.startsWith('image/')
IsImageType(type) == type[1] = "image"

\* reader.result of readAsDataURL
DataURL(file) == [mediatype |-> file.type, data |-> file.request]

InitUpload ==
  /\ RouteIdle
  /\ mapPage = InitialMapPage
  /\ uploadPage = InitialUploadPage

HandleFileChange(files) ==
  /\ Len(uploadPage.readers) < MaxReaders
  /\ IF Len(files) > 0
     THEN uploadPage' = [uploadPage EXCEPT !.selectedFile = Some(files[1]),
                                           !.error = Null,
                                           !.result = Null,
                                           !.readers = Append(@, files[1])]
     ELSE UNCHANGED uploadPage
  /\ UNCHANGED <<routeVars, mapPage>>

\* reader.onloadend of one of the pending loads
ReaderLoadEnd(k) ==
  /\ k \in DOMAIN uploadPage.readers
  /\ uploadPage' =
       [uploadPage EXCEPT
          !.preview = Some(DataURL(uploadPage.readers[k])),
          !.readers = SubSeq(@, 1, k - 1) \o SubSeq(@, k + 1, Len(@))]
  /\ UNCHANGED <<routeVars, mapPage>>

HandleDrop(files) ==
  /\ Len(uploadPage.readers) < MaxReaders
  /\ IF Len(files) > 0
     THEN IF IsImageType(files[1].type)
          THEN uploadPage' = [uploadPage EXCEPT !.selectedFile = Some(files[1]),
                                                !.error = Null,
                                                !.result = Null,
                                                !.readers = Append(@, files[1])]
          ELSE uploadPage' = [uploadPage EXCEPT
                                !.error = Some("Please upload an image file.")]
     ELSE UNCHANGED uploadPage
  /\ UNCHANGED <<routeVars, mapPage>>

\* fetch('/api/analyze') hands the request to a new invocation of POST
Invoke(r) ==
  /\ request' = r
  /\ pc' = "formData"
  /\ width' = 0
  /\ height' = 0
  /\ rawPixelData' = <<>>
  /\ i' = 0
  /\ colorTotals' = ZeroTotals
  /\ averages' = ZeroTotals
  /\ metrics' = NoMetrics
  /\ overallQuality' = ""
  /\ safetyStatus' = NoSafety
  /\ safetyArg' = NoSafety
  /\ recommendations' = <<>>
  /\ response' = NoResponse
  /\ steps' = <<>>
  /\ thrown' = ""
  /\ UNCHANGED parked

\* handleSubmit up to its await; the button is disabled without a file
\* and while loading
HandleSubmit ==
  /\ ~(uploadPage.selectedFile = Null \/ uploadPage.loading)
  /\ IF uploadPage.selectedFile = Null
     THEN /\ uploadPage' = [uploadPage EXCEPT
                              !.error = Some("Please select an image to analyze.")]
          /\ UNCHANGED routeVars
     ELSE /\ uploadPage' = [uploadPage EXCEPT !.loading = TRUE,
                                              !.error = Null,
                                              !.fetching = uploadPage.selectedFile]
          /\ Invoke(uploadPage.selectedFile[1].request)
  /\ UNCHANGED mapPage

\* the fetch rejects: the request has not reached the server
FetchRejects ==
  /\ uploadPage.fetching # Null
  /\ pc = "formData"
  /\ pc' = "idle"
  /\ uploadPage' =
       [uploadPage EXCEPT
          !.error = Some("Failed to analyze the image. Please try again."),
          !.loading = FALSE,
          !.fetching = Null]
  /\ UNCHANGED <<request, width, height, rawPixelData, i, colorTotals, averages,
                 metrics, overallQuality, safetyStatus, safetyArg, recommendations,
                 response, steps, thrown, parked, mapPage>>

\* the fetch resolves with the response POST returned and handleSubmit
\* resumes
FetchResolves ==
  /\ uploadPage.fetching # Null
  /\ pc = "done"
  /\ pc' = "idle"
  /\ IF response.status = 200
     THEN uploadPage' = [uploadPage EXCEPT !.result = Some(response.body),
                                           !.loading = FALSE,
                                           !.fetching = Null]
     ELSE uploadPage' =
            [uploadPage EXCEPT
               !.error = Some("Failed to analyze the image. Please try again."),
               !.loading = FALSE,
               !.fetching = Null]
  /\ UNCHANGED <<request, width, height, rawPixelData, i, colorTotals, averages,
                 metrics, overallQuality, safetyStatus, safetyArg, recommendations,
                 response, steps, thrown, parked, mapPage>>

NextUpload ==
  \/ \E files \in FileLists : HandleFileChange(files)
  \/ \E k \in 1..MaxReaders : ReaderLoadEnd(k)
  \/ \E files \in FileLists : HandleDrop(files)
  \/ HandleSubmit
  \/ FetchRejects
  \/ FetchResolves
  \/ ParseForm
  \/ ReadBytes
  \/ ReadMetadata
  \/ DecodeRaw
  \/ Pass1Step
  \/ Pass1End
  \/ Pass2Step
  \/ Pass2End
  \/ DetermineQuality
  \/ AssessSafety
  \/ GenerateRecommendations
  \/ Respond

SpecUpload == InitUpload /\ [][NextUpload]_vars

\* ------------------------------------------------------------------------
\* C22: in the upload page, after any sequence of file selections, drops
\* (of image or non-image files) and submissions (succeeding or failing),
\* result and error are never both non-null at once.
\* The code violates it: the drop of a non-image file and a failing
\* submission set error without clearing the result of an earlier
\* analysis.
\* ------------------------------------------------------------------------
C22_ResultAndErrorNeverTogether ==
  ~(uploadPage.result # Null /\ uploadPage.error # Null)

====
